---- MODULE Spec2Model ----
(***************************************************************************)
(* Model of pkg/tcpip/header/udp.go: the UDP header view over a byte       *)
(* slice, its field accessors and mutators, Encode, CalculateChecksum and  *)
(* IsChecksumValid.                                                        *)
(*                                                                         *)
(* A Go slice is modelled as [arr, off, len]: arr is the backing array,    *)
(* off the index of the slice's first byte in it and len its length; its   *)
(* capacity is Len(arr) - off.  A call that panics (slice bounds or index  *)
(* out of range) yields a result whose ok field is FALSE.                  *)
(***************************************************************************)
EXTENDS Integers, Sequences, FiniteSets, TLC

VARIABLES b, data, src, dst, netProto, corrupted, ret

vars == <<b, data, src, dst, netProto, corrupted, ret>>

(* ------------------------------ constants ------------------------------ *)

udpSrcPort == 0
udpDstPort == 2
udpLength == 4
udpChecksum == 6

UDPMinimumSize == 8
UDPProtocolNumber == 17

IPv4ProtocolNumber == 2048
IPv6ProtocolNumber == 34525

(* ------------------------------- bounds -------------------------------- *)

\* Regions of UDPMinimumSize - MaxShort .. UDPMinimumSize + MaxExtra bytes.
MaxShort == 2
MaxExtra == 1
\* A payload of at most MaxSpans views of at most MaxSpanLen bytes each.
MaxSpans == 2
MaxSpanLen == 2

U16 == 2 ^ 16
Byte == 2 ^ 8

\* Field values the callers pass to the mutators.
Vals16 == {0, 4660, 65535}
\* UDPFields values the callers pass to Encode.
Fields ==
  {<<0, 0, 0, 0>>, <<4660, 65535, 0, 4660>>, <<65535, 4660, 65535, 0>>,
   <<53, 1234, 16, 0>>}
\* Partial checksums the callers pass to CalculateChecksum.
Partials == {0, 4660, 65535}
\* Prior contents of a region: every byte is the fill byte plus its index.
Fills == {0, 255}

(* --------------------------- encoding/binary --------------------------- *)

Panic(s) == [ok |-> FALSE, s |-> s, v |-> 0]
Done(s) == [ok |-> TRUE, s |-> s, v |-> 0]
Value(s, v) == [ok |-> TRUE, s |-> s, v |-> v]

Cap(s) == Len(s.arr) - s.off

\* s[lo:]: panics unless lo <= len(s).
SliceFrom(s, lo) ==
  IF lo > s.len THEN Panic(s)
  ELSE Done([arr |-> s.arr, off |-> s.off + lo, len |-> s.len - lo])

\* s[:hi]: panics unless hi <= cap(s).
SliceTo(s, hi) ==
  IF hi > Cap(s) THEN Panic(s)
  ELSE Done([arr |-> s.arr, off |-> s.off, len |-> hi])

\* The bytes of a slice, as a sequence.
Bytes(s) == [i \in 1..s.len |-> s.arr[s.off + i]]

\* binary.BigEndian.Uint16: _ = b[1]; uint16(b[1]) | uint16(b[0])<<8.
Uint16(s) ==
  IF s.len < 2 THEN Panic(s)
  ELSE Value(s, s.arr[s.off + 1] * Byte + s.arr[s.off + 2])

PutUint16LE(s, v) ==
  IF s.len < 2 THEN Panic(s)
  ELSE Done([s EXCEPT !.arr = [@ EXCEPT ![s.off + 1] = v % Byte,
                                        ![s.off + 2] = v \div Byte]])

\* binary.BigEndian.PutUint16: _ = b[1]; b[0] = byte(v >> 8); b[1] = byte(v).
PutUint16(s, v) ==
  IF s.len < 2 THEN Panic(s)
  ELSE Done([s EXCEPT !.arr = [@ EXCEPT ![s.off + 1] = v \div Byte,
                                        ![s.off + 2] = v % Byte]])

\* The view b after a write through the sub-slice b[off:].
Rebase(view, r) == [ok |-> r.ok, s |-> [view EXCEPT !.arr = r.s.arr], v |-> 0]

GetField(view, off) ==
  LET sl == SliceFrom(view, off)
  IN  IF ~sl.ok THEN Panic(view)
      ELSE LET r == Uint16(sl.s) IN [ok |-> r.ok, s |-> view, v |-> r.v]

SetField(view, off, v) ==
  LET sl == SliceFrom(view, off)
  IN  IF ~sl.ok THEN Panic(view) ELSE Rebase(view, PutUint16(sl.s, v))

(* ------------------------------ accessors ------------------------------ *)

SourcePort(view) == GetField(view, udpSrcPort)

DestinationPort(view) == GetField(view, udpDstPort)

Length(view) == GetField(view, udpLength)

Checksum(view) == GetField(view, udpChecksum)

\* b[UDPMinimumSize:], a view of the same backing array.
Payload(view) == SliceFrom(view, UDPMinimumSize)

(* ------------------------------ mutators ------------------------------- *)

SetSourcePort(view, port) == SetField(view, udpSrcPort, port)

SetDestinationPort(view, port) == SetField(view, udpDstPort, port)

SetChecksumAtLength(view, checksum) == SetField(view, udpLength, checksum)

SetChecksum(view, checksum) == SetField(view, udpChecksum, checksum)

SetLengthAtChecksum(view, length) == SetField(view, udpChecksum, length)

SetLength(view, length) == SetField(view, udpLength, length)

\* Four writes in order; a panic stops the call and keeps the writes made.
Then(r, off, v) == IF r.ok THEN SetField(r.s, off, v) ELSE r

EncodeNoChecksum(view, u) ==
  Then(Then(SetField(view, udpSrcPort, u[1]), udpDstPort, u[2]),
       udpLength, u[3])

Encode(view, u) ==
  Then(Then(Then(SetField(view, udpSrcPort, u[1]), udpDstPort, u[2]),
            udpLength, u[3]), udpChecksum, u[4])

(* ------------------- checksum routines of the package ------------------ *)

\* ChecksumCombine: the 32-bit sum v folded to 16 bits, end-around carry.
ChecksumCombine(v) ==
  LET w == (v % U16) + (v \div U16)
  IN  (w + (w \div U16)) % U16

RECURSIVE SumWords(_, _)
\* The 16-bit big-endian words of buf from index i on, added up.
SumWords(buf, i) ==
  IF i + 1 > Len(buf) THEN 0
  ELSE buf[i] * Byte + buf[i + 1] + SumWords(buf, i + 2)

\* Checksum(buf, initial): the one's-complement sum of buf seeded with
\* initial; an odd last byte counts as the high byte of a word.
HeaderChecksum(buf, initial) ==
  LET l == Len(buf)
      odd == IF l % 2 = 1 THEN buf[l] * Byte ELSE 0
      even == IF l % 2 = 1 THEN SubSeq(buf, 1, l - 1) ELSE buf
  IN  ChecksumCombine(initial + odd + SumWords(even, 1))

\* PseudoHeaderChecksum(protocol, srcAddr, dstAddr, totalLen).
PseudoHeaderChecksum(protocol, srcAddr, dstAddr, totalLen) ==
  LET x1 == HeaderChecksum(srcAddr, 0)
      x2 == HeaderChecksum(dstAddr, x1)
      x3 == HeaderChecksum(<<totalLen \div Byte, totalLen % Byte>>, x2)
  IN  HeaderChecksum(<<0, protocol % Byte>>, x3)

(* ------------------------------ checksums ------------------------------ *)

CalculateChecksumWhole(view, partialChecksum) ==
  Value(view, HeaderChecksum(Bytes(view), partialChecksum))

\* Checksum(b[:UDPMinimumSize], partialChecksum).
CalculateChecksum(view, partialChecksum) ==
  LET sl == SliceTo(view, UDPMinimumSize)
  IN  IF ~sl.ok THEN Panic(view)
      ELSE Value(view, HeaderChecksum(Bytes(sl.s), partialChecksum))

RECURSIVE Views(_, _, _)
\* for _, v := range data.Views() { xsum = Checksum(v, xsum) }
Views(d, i, xsum) ==
  IF i > Len(d) THEN xsum ELSE Views(d, i + 1, HeaderChecksum(d[i], xsum))

True(view) == [ok |-> TRUE, s |-> view, v |-> 1]
Bool(view, p) == [ok |-> TRUE, s |-> view, v |-> IF p THEN 1 ELSE 0]

FullValidationNoPayload(view, s, d, vv) ==
  LET len == Length(view)
      xsum == PseudoHeaderChecksum(UDPProtocolNumber, d, s, len.v)
      calc == CalculateChecksum(view, xsum)
  IN  IF ~len.ok \/ ~calc.ok THEN Panic(view)
      ELSE Bool(view, calc.v = U16 - 1)

\* The rest of IsChecksumValid, after the zero-checksum test.
FullValidation(view, s, d, vv) ==
  LET len == Length(view)
      xsum == PseudoHeaderChecksum(UDPProtocolNumber, d, s, len.v)
      calc == CalculateChecksum(view, Views(vv, 1, xsum))
  IN  IF ~len.ok \/ ~calc.ok THEN Panic(view)
      ELSE Bool(view, calc.v = U16 - 1)

IsChecksumValidAnyProto(view, s, d, proto, vv) ==
  LET c == Checksum(view)
  IN  IF ~c.ok THEN Panic(view)
      ELSE IF c.v = 0 THEN True(view)
      ELSE FullValidation(view, s, d, vv)

IsChecksumValidNoBypass(view, s, d, proto, vv) ==
  LET c == Checksum(view)
  IN  IF ~c.ok THEN Panic(view) ELSE FullValidation(view, s, d, vv)

IsChecksumValid(view, s, d, proto, vv) ==
  LET c == Checksum(view)
  IN  IF ~c.ok THEN Panic(view)
      ELSE IF c.v = 0 /\ proto = IPv4ProtocolNumber THEN True(view)
      ELSE FullValidation(view, s, d, vv)

(* ------------------- the sender's checksum procedure ------------------- *)

\* Zero the Checksum field, fold pseudo-header, payload views and header,
\* and store the one's complement of the result with SetChecksum.
StoreChecksum(view, s, d, vv) ==
  LET z == SetChecksum(view, 0)
      len == Length(z.s)
      xsum == PseudoHeaderChecksum(UDPProtocolNumber, d, s, len.v)
      calc == CalculateChecksum(z.s, Views(vv, 1, xsum))
  IN  IF ~z.ok \/ ~len.ok \/ ~calc.ok THEN Panic(view)
      ELSE SetChecksum(z.s, (U16 - 1) - calc.v)

(* ----------------------------- environment ----------------------------- *)

\* The byte at index i of a region's prior contents.
Fill(f, i) == (f + 17 * i) % Byte

\* The i-th byte of the payload stream the views are cut from.
PayloadByte(i) == (91 * i + 80) % Byte

RECURSIVE Cut(_, _, _)
\* The views of lengths lens[i..], cut from the stream after `at` bytes.
Cut(lens, i, at) ==
  IF i > Len(lens) THEN << >>
  ELSE <<[k \in 1..lens[i] |-> PayloadByte(at + k)]>>
       \o Cut(lens, i + 1, at + lens[i])

\* The lengths of the views of a payload: no view is empty.
SpanLens == UNION {[1..n -> 1..MaxSpanLen] : n \in 0..MaxSpans}

Addr4 == << <<10, 0, 0, 1>>, <<192, 168, 1, 2>>, <<172, 16, 254, 3>> >>
Addr6 ==
  << <<32, 1, 13, 184, 0, 0, 0, 0, 0, 0, 0, 0, 0, 0, 0, 1>>,
     <<254, 128, 0, 0, 0, 0, 0, 0, 2, 0, 94, 255, 254, 0, 83, 2>>,
     <<32, 1, 13, 184, 133, 163, 0, 0, 0, 0, 138, 46, 3, 112, 115, 52>> >>

Protos == {IPv4ProtocolNumber, IPv6ProtocolNumber}
Addrs(proto) == IF proto = IPv4ProtocolNumber THEN Addr4 ELSE Addr6

\* The region make([]byte, n, c) with its prior contents.
Region(n, c, f) == [arr |-> [i \in 1..c |-> Fill(f, i)], off |-> 0, len |-> n]

NoCall == [op |-> "none", args |-> << >>, out |-> "none", val |-> << >>]

Ret(op, args, out, val) == [op |-> op, args |-> args, out |-> out, val |-> val]

\* What a call that returns a uint16 reports.
RetU16(op, args, r) ==
  IF r.ok THEN Ret(op, args, "value", <<r.v>>) ELSE Ret(op, args, "panic", << >>)

RetBool(op, args, r) ==
  IF ~r.ok THEN Ret(op, args, "panic", << >>)
  ELSE Ret(op, args, IF r.v = 1 THEN "true" ELSE "false", << >>)

RetVoid(op, args, r) ==
  Ret(op, args, IF r.ok THEN "done" ELSE "panic", << >>)

Env == <<data, src, dst, netProto, corrupted>>

(* ------------------------------- actions ------------------------------- *)

CallSourcePort ==
  /\ ret' = RetU16("SourcePort", << >>, SourcePort(b))
  /\ UNCHANGED <<b, Env>>

CallDestinationPort ==
  /\ ret' = RetU16("DestinationPort", << >>, DestinationPort(b))
  /\ UNCHANGED <<b, Env>>

CallLength ==
  /\ ret' = RetU16("Length", << >>, Length(b))
  /\ UNCHANGED <<b, Env>>

CallChecksum ==
  /\ ret' = RetU16("Checksum", << >>, Checksum(b))
  /\ UNCHANGED <<b, Env>>

CallPayload ==
  /\ LET r == Payload(b)
     IN  ret' = IF r.ok THEN Ret("Payload", << >>, "value", Bytes(r.s))
                ELSE Ret("Payload", << >>, "panic", << >>)
  /\ UNCHANGED <<b, Env>>

CallSetSourcePort(port) ==
  /\ ~corrupted
  /\ LET r == SetSourcePort(b, port)
     IN  b' = r.s /\ ret' = RetVoid("SetSourcePort", <<port>>, r)
  /\ UNCHANGED Env

CallSetDestinationPort(port) ==
  /\ ~corrupted
  /\ LET r == SetDestinationPort(b, port)
     IN  b' = r.s /\ ret' = RetVoid("SetDestinationPort", <<port>>, r)
  /\ UNCHANGED Env

CallSetChecksum(checksum) ==
  /\ ~corrupted
  /\ LET r == SetChecksum(b, checksum)
     IN  b' = r.s /\ ret' = RetVoid("SetChecksum", <<checksum>>, r)
  /\ UNCHANGED Env

CallSetLength(length) ==
  /\ ~corrupted
  /\ LET r == SetLength(b, length)
     IN  b' = r.s /\ ret' = RetVoid("SetLength", <<length>>, r)
  /\ UNCHANGED Env

CallEncode(u) ==
  /\ ~corrupted
  /\ LET r == Encode(b, u)
     IN  b' = r.s /\ ret' = RetVoid("Encode", u, r)
  /\ UNCHANGED Env

CallCalculateChecksumZeroing(partialChecksum) ==
  /\ ret' = RetU16("CalculateChecksum", <<partialChecksum>>,
                   CalculateChecksum(b, partialChecksum))
  /\ b' = SetChecksum(b, 0).s
  /\ UNCHANGED Env

CallCalculateChecksum(partialChecksum) ==
  /\ ret' = RetU16("CalculateChecksum", <<partialChecksum>>,
                   CalculateChecksum(b, partialChecksum))
  /\ UNCHANGED <<b, Env>>

CallIsChecksumValid ==
  /\ ret' = RetBool("IsChecksumValid", << >>,
                    IsChecksumValid(b, src, dst, netProto, data))
  /\ UNCHANGED <<b, Env>>

CallStoreChecksum ==
  /\ ~corrupted
  /\ LET r == StoreChecksum(b, src, dst, data)
     IN  b' = r.s /\ ret' = RetVoid("StoreChecksum", << >>, r)
  /\ UNCHANGED Env

\* x with bit k flipped.
FlipBit(x, k) == IF (x \div (2 ^ k)) % 2 = 1 THEN x - 2 ^ k ELSE x + 2 ^ k

Valid(view, vv) == IsChecksumValid(view, src, dst, netProto, vv).v

\* What a flip records: where, whether the datagram was valid before it,
\* and the Checksum field before it.
Flipped(part, i, j, k) ==
  Ret("FlipBit", <<part, i, j, k, Valid(b, data), Checksum(b).v>>, "done", << >>)

\* One bit of the header is flipped on the wire.
FlipHeaderBit(i, k) ==
  /\ ~corrupted
  /\ corrupted' = TRUE
  /\ b' = [b EXCEPT !.arr[i] = FlipBit(@, k)]
  /\ ret' = Flipped(0, 0, i, k)
  /\ UNCHANGED <<data, src, dst, netProto>>

\* One bit of byte j of payload view i is flipped on the wire.
FlipPayloadBit(i, j, k) ==
  /\ ~corrupted
  /\ corrupted' = TRUE
  /\ data' = [data EXCEPT ![i][j] = FlipBit(@, k)]
  /\ ret' = Flipped(1, i, j, k)
  /\ UNCHANGED <<b, src, dst, netProto>>

(* ---------------------- the header codec: Spec ------------------------- *)

Lens == (UDPMinimumSize - MaxShort)..(UDPMinimumSize + MaxExtra)

Init ==
  /\ \E n \in Lens, f \in Fills :
       \E c \in {n, IF n < UDPMinimumSize THEN UDPMinimumSize ELSE n} :
         b = Region(n, c, f)
  /\ \E e \in {<<IPv4ProtocolNumber, << >> >>, <<IPv6ProtocolNumber, <<1, 2>> >>} :
       netProto = e[1] /\ data = Cut(e[2], 1, 0)
  /\ src = Addrs(netProto)[1]
  /\ dst = Addrs(netProto)[2]
  /\ corrupted = FALSE
  /\ ret = NoCall

Next ==
  \/ CallSourcePort
  \/ CallDestinationPort
  \/ CallLength
  \/ CallChecksum
  \/ CallPayload
  \/ \E v \in Vals16 : CallSetSourcePort(v)
  \/ \E v \in Vals16 : CallSetDestinationPort(v)
  \/ \E v \in Vals16 : CallSetLength(v)
  \/ \E v \in Vals16 : CallSetChecksum(v)
  \/ \E u \in Fields : CallEncode(u)
  \/ \E p \in Partials : CallCalculateChecksum(p)
  \/ CallIsChecksumValid

Spec == Init /\ [][Next]_vars

(* ------------------ checksum validation: SpecChecksum ------------------ *)

\* The datagrams the sender starts from: Checksum field not yet computed.
InitFields == {<<53, 1234, 16, 0>>, <<65535, 32768, 8, 0>>}

InitChecksum ==
  /\ \E u \in InitFields :
       b = Encode(Region(UDPMinimumSize, UDPMinimumSize, 0), u).s
  /\ netProto \in Protos
  /\ src = Addrs(netProto)[1]
  /\ \E i \in {2, 3} : dst = Addrs(netProto)[i]
  /\ \E lens \in SpanLens : data = Cut(lens, 1, 0)
  /\ corrupted = FALSE
  /\ ret = NoCall

NextChecksum ==
  \/ \E v \in Vals16 : CallSetChecksum(v)
  \/ CallStoreChecksum
  \/ \E i \in 1..UDPMinimumSize, k \in 0..7 : FlipHeaderBit(i, k)
  \/ \E i \in 1..Len(data) : \E j \in 1..Len(data[i]), k \in 0..7 :
       FlipPayloadBit(i, j, k)
  \/ CallIsChecksumValid

SpecChecksum == InitChecksum /\ [][NextChecksum]_vars

(* ------------------------------- claims -------------------------------- *)

AtLeastMinimum == b.len >= UDPMinimumSize

\* C1: after Encode(fields) on a region of at least 8 bytes, whatever its
\* prior contents, SourcePort, DestinationPort, Length and Checksum return
\* fields.SrcPort, fields.DstPort, fields.Length and fields.Checksum.
RoundTrip ==
  (ret.op = "Encode" /\ AtLeastMinimum) =>
    /\ ret.out = "done"
    /\ SourcePort(b) = Value(b, ret.args[1])
    /\ DestinationPort(b) = Value(b, ret.args[2])
    /\ Length(b) = Value(b, ret.args[3])
    /\ Checksum(b) = Value(b, ret.args[4])

RoundTripReached ==
  /\ ret.op = "Encode"
  /\ ret.args = <<4660, 65535, 0, 4660>>
  /\ b.len > UDPMinimumSize
  /\ SourcePort(b).v = 4660

\* C2: whenever the stored Checksum field is 0 and netProto is IPv4,
\* IsChecksumValid returns true, whatever the addresses, the Length and
\* port fields and the payload views are.
ZeroChecksumBypass ==
  (/\ ret.op = "IsChecksumValid"
   /\ Checksum(b).v = 0
   /\ netProto = IPv4ProtocolNumber) => ret.out = "true"

\* The bypass is taken on a datagram the full computation rejects.
ZeroChecksumBypassReached ==
  /\ ret.op = "IsChecksumValid"
  /\ Checksum(b).v = 0
  /\ netProto = IPv4ProtocolNumber
  /\ Len(data) > 1
  /\ FullValidation(b, src, dst, data).v = 0
  /\ ret.out = "true"

WasValid == ret.op = "FlipBit" /\ ret.args[5] = 1

\* C3, as stated: from a datagram IsChecksumValid reports valid, flipping
\* any single bit of the header or of the payload makes it report invalid,
\* over IPv4 and over IPv6.
FlipInvalidates == WasValid => Valid(b, data) = 0

\* C3, amended: the same, over IPv6 always, and over IPv4 when the Checksum
\* field is non-zero both before and after the flip.
FlipInvalidatesOutsideBypass ==
  (/\ WasValid
   /\ \/ netProto = IPv6ProtocolNumber
      \/ ret.args[6] # 0 /\ Checksum(b).v # 0) => Valid(b, data) = 0

FlipInvalidatesReached ==
  /\ WasValid
  /\ netProto = IPv4ProtocolNumber
  /\ ret.args[6] # 0
  /\ Checksum(b).v # 0
  /\ ret.args[1] = 1
  /\ Valid(b, data) = 0

\* C4: on a region shorter than 8 bytes every accessor and mutator ends in
\* a reported rejection: it neither returns or writes a field of the
\* undersized region nor panics.
ShortRegionRejected ==
  (b.len < UDPMinimumSize /\ ret.op # "none") => ret.out = "rejected"

\* C5: after the Checksum field is zeroed and the complement of
\* CalculateChecksum over the pseudo-header seed folded with the payload
\* views is stored with SetChecksum, IsChecksumValid with the same
\* addresses, protocol and payload returns true.
SelfConsistent ==
  ret.op = "StoreChecksum" =>
    ret.out = "done" /\ IsChecksumValid(b, src, dst, netProto, data) = True(b)

SelfConsistentReached ==
  /\ ret.op = "StoreChecksum"
  /\ netProto = IPv6ProtocolNumber
  /\ Len(data) > 1
  /\ Len(data[1]) = 1
  /\ Checksum(b).v # 0

\* One's-complement addition of two 16-bit words, end-around carry.
Add1c(x, w) == IF x + w >= U16 THEN x + w - U16 + 1 ELSE x + w

RECURSIVE Fold1c(_, _, _)
\* The words of buf from index i on added to x one at a time; a last odd
\* byte is the high byte of a word.
Fold1c(buf, i, x) ==
  IF i > Len(buf) THEN x
  ELSE IF i = Len(buf) THEN Add1c(x, buf[i] * Byte)
  ELSE Fold1c(buf, i + 2, Add1c(x, buf[i] * Byte + buf[i + 1]))

RECURSIVE FoldViews1c(_, _, _)
FoldViews1c(d, i, x) ==
  IF i > Len(d) THEN x ELSE FoldViews1c(d, i + 1, Fold1c(d[i], 1, x))

\* Pseudo-header (protocol 17, dst, src, Length field), then the payload
\* views in order, then the 8 header bytes.
FoldDatagram ==
  LET len == <<b.arr[5], b.arr[6]>>
      seed == Fold1c(<<0, 17>>, 1, Fold1c(len, 1, Fold1c(src, 1, Fold1c(dst, 1, 0))))
  IN  Fold1c(SubSeq(b.arr, 1, 8), 1, FoldViews1c(data, 1, seed))

\* C6: when the stored Checksum field is non-zero or netProto is IPv6,
\* IsChecksumValid returns true if and only if folding the pseudo-header
\* seed, the payload views in order and the 8 header bytes gives 0xFFFF.
FullValidationOutsideBypass ==
  (/\ ret.op = "IsChecksumValid"
   /\ ~(Checksum(b).v = 0 /\ netProto = IPv4ProtocolNumber)) =>
     /\ ret.out \in {"true", "false"}
     /\ ret.out = "true" <=> FoldDatagram = 65535

\* A zero Checksum field over IPv6 is computed, and found invalid.
FullValidationReached ==
  /\ ret.op = "IsChecksumValid"
  /\ netProto = IPv6ProtocolNumber
  /\ Checksum(b).v = 0
  /\ Len(data) > 0
  /\ ret.out = "false"

Setters ==
  {<<"SetSourcePort", 0>>, <<"SetDestinationPort", 2>>, <<"SetLength", 4>>,
   <<"SetChecksum", 6>>}

\* C7: on a region of at least 8 bytes SetSourcePort, SetDestinationPort,
\* SetLength and SetChecksum write the high byte of the value at offset 0,
\* 2, 4 and 6 and the low byte at the next offset, and leave every other
\* byte of the region, its length and the payload views unchanged.
MutatorLayout ==
  [][\A m \in Setters :
       (ret'.op = m[1] /\ AtLeastMinimum) =>
         /\ ret'.out = "done"
         /\ b'.len = b.len /\ b'.off = b.off /\ Len(b'.arr) = Len(b.arr)
         /\ b'.arr[m[2] + 1] = ret'.args[1] \div 256
         /\ b'.arr[m[2] + 2] = ret'.args[1] % 256
         /\ \A i \in 1..Len(b.arr) \ {m[2] + 1, m[2] + 2} :
              b'.arr[i] = b.arr[i]
         /\ data' = data]_vars

\* SetSourcePort(0x1234) has left 0x12, 0x34 at offset 0.
MutatorLayoutReached ==
  /\ ret.op = "SetSourcePort"
  /\ ret.args = <<4660>>
  /\ b.len > UDPMinimumSize
  /\ b.arr[1] = 18 /\ b.arr[2] = 52

Setter(k, view, u) ==
  CASE k = 1 -> SetSourcePort(view, u[1])
    [] k = 2 -> SetDestinationPort(view, u[2])
    [] k = 3 -> SetLength(view, u[3])
    [] k = 4 -> SetChecksum(view, u[4])

\* The 24 orders of the four mutators.
Orders ==
  {<<1, 2, 3, 4>>, <<1, 2, 4, 3>>, <<1, 3, 2, 4>>, <<1, 3, 4, 2>>,
   <<1, 4, 2, 3>>, <<1, 4, 3, 2>>, <<2, 1, 3, 4>>, <<2, 1, 4, 3>>,
   <<2, 3, 1, 4>>, <<2, 3, 4, 1>>, <<2, 4, 1, 3>>, <<2, 4, 3, 1>>,
   <<3, 1, 2, 4>>, <<3, 1, 4, 2>>, <<3, 2, 1, 4>>, <<3, 2, 4, 1>>,
   <<3, 4, 1, 2>>, <<3, 4, 2, 1>>, <<4, 1, 2, 3>>, <<4, 1, 3, 2>>,
   <<4, 2, 1, 3>>, <<4, 2, 3, 1>>, <<4, 3, 1, 2>>, <<4, 3, 2, 1>>}

InOrder(p, view, u) ==
  LET s1 == Setter(p[1], view, u).s
      s2 == Setter(p[2], s1, u).s
      s3 == Setter(p[3], s2, u).s
  IN  Setter(p[4], s3, u)

\* C8: on a region of at least 8 bytes Encode(fields) leaves the region as
\* the four mutator calls with the fields' values do, in any order, and
\* leaves the bytes at offset 8 and beyond unchanged.
EncodeAsMutators ==
  [][(ret'.op = "Encode" /\ AtLeastMinimum) =>
       /\ \A p \in Orders : b' = InOrder(p, b, ret'.args).s
       /\ \A i \in (UDPMinimumSize + 1)..Len(b.arr) : b'.arr[i] = b.arr[i]]_vars

EncodeAsMutatorsReached ==
  /\ ret.op = "Encode"
  /\ ret.args = <<65535, 4660, 65535, 0>>
  /\ b.len > UDPMinimumSize
  /\ Checksum(b).v = 0

\* The value congruent to t modulo 0xFFFF that a one's-complement sum of
\* total t folds to: 0 only for t = 0.
OnesFold(t) == IF t = 0 THEN 0 ELSE ((t - 1) % 65535) + 1

Word(i) == b.arr[2 * i + 1] * 256 + b.arr[2 * i + 2]

\* C9: CalculateChecksum(partialChecksum) is the Internet checksum of bytes
\* 0..7 of the region seeded with partialChecksum, the stored Checksum
\* field included, whatever follows offset 8 and whatever the length is.
HeaderBytesOnly ==
  (ret.op = "CalculateChecksum" /\ AtLeastMinimum) =>
    /\ ret.out = "value"
    /\ ret.val = <<OnesFold(ret.args[1] + Word(0) + Word(1) + Word(2) + Word(3))>>

HeaderBytesOnlyReached ==
  /\ ret.op = "CalculateChecksum"
  /\ b.len > UDPMinimumSize
  /\ b.arr[b.len] # 0
  /\ Checksum(b).v # 0
  /\ ret.args[1] # 0

ReadOps ==
  {"SourcePort", "DestinationPort", "Length", "Checksum", "Payload",
   "CalculateChecksum", "IsChecksumValid"}

\* C10: a call of SourcePort, DestinationPort, Length, Checksum, Payload,
\* CalculateChecksum or IsChecksumValid leaves the region and the payload
\* views unchanged, and the same call with the same arguments made again
\* returns the same result.
ReadOnly ==
  [][ret'.op \in ReadOps =>
       /\ b' = b /\ data' = data
       /\ (ret.op = ret'.op /\ ret.args = ret'.args) => ret' = ret]_vars

ReadOnlyReached ==
  /\ ret.op = "IsChecksumValid"
  /\ ret.out = "false"
  /\ AtLeastMinimum
  /\ Len(data) > 1

====
